---- MODULE Spec2Model ----
(***************************************************************************)
(* Model of the two segmented recorders of mlx-transcribe                  *)
(*   src/src/transcript-by-segment.py        (script = "segment")          *)
(*   src/src/transcript-with-diarization.py  (script = "diarization")      *)
(* and of the pure merge functions of the diarization recorder             *)
(* (get_speaker_for_time, format_transcript, format_time).                 *)
(*                                                                         *)
(* Times are integers (seconds); audio frames are counted, not stored.     *)
(* A text file is a sequence of lines; every write system call appends a   *)
(* whole sequence of lines atomically (files are opened with mode "a").    *)
(***************************************************************************)
EXTENDS Integers, Sequences, FiniteSets, TLC

VARIABLES
    \* ---- get_speaker_for_time (SpecSpeaker)
    diarization,      \* the diarization turns, in iteration order
    start,            \* the window start
    end,              \* the window end
    speaker_result,   \* the returned speaker, NotCalled before the call
    \* ---- format_transcript (SpecFormat)
    segments,         \* the labeled segments given to format_transcript
    fmt_segment_num,  \* its segment_num argument
    output,           \* the returned text as a sequence of lines, <<>> before the call
    \* ---- the recorders (Spec)
    script,           \* which recorder runs: "segment" or "diarization"
    HF_TOKEN,         \* os.getenv("HF_TOKEN"): None, "" or a token
    SEGMENT_SECONDS,  \* the segment duration, counted in chunk reads
    pc,               \* the main thread's position
    session_dir,      \* TRUE once the session directory exists
    master_file,      \* the lines of transcription_complete.txt, <<>> while absent
    stream,           \* the audio stream: "none", "open" or "closed"
    segment_num,      \* the capture loop's counter
    is_recording,     \* the capture loop's flag
    frames,           \* the number of chunks captured for the current segment
    wav,              \* the WAV files: segment number -> [data, closed]
    threads,          \* the background threads, in start order
    json_files,       \* the segment numbers of the JSON files written
    interrupt_at      \* where KeyboardInterrupt was raised, "none" before

speakerVars == <<diarization, start, end, speaker_result>>
formatVars == <<segments, fmt_segment_num, output>>
recorderVars == <<script, HF_TOKEN, SEGMENT_SECONDS, pc, session_dir, master_file,
                  stream, segment_num, is_recording, frames, wav, threads,
                  json_files, interrupt_at>>
vars == <<speakerVars, formatVars, recorderVars>>

----------------------------------------------------------------------------
\* Bounds of the model

\* longest sequence of diarization turns
MaxTurns == 3
\* turn and window boundaries range over 0..MaxTime
MaxTime == 2
\* longest sequence of labeled segments given to format_transcript
MaxSegs == 3
\* the capture loop starts at most this many segments
MaxSegments == 3
\* chunk reads in one segment of positive duration
SegmentChunks == 2

Speakers == {"SPEAKER_00", "SPEAKER_01"}
UnknownSpeaker == "Unknown Speaker"
NotCalled == "<not called>"
\* Python's None
None == "<None>"

SeqsUpTo(S, n) == UNION {[1..k -> S] : k \in 0..n}

----------------------------------------------------------------------------
\* get_speaker_for_time

MaxOf(a, b) == IF a >= b THEN a ELSE b
MinOf(a, b) == IF a <= b THEN a ELSE b

\* a diarization turn covers a non-empty interval
Turns == {t \in [start : 0..MaxTime, end : 0..MaxTime, speaker : Speakers] :
            t.start < t.end}

\* mutant of HasOverlap: an abutting turn counts as overlapping
HasOverlapInclusive(turn, s, e) == MaxOf(turn.start, s) <= MinOf(turn.end, e)

\* if overlap_start < overlap_end
HasOverlap(turn, s, e) == MaxOf(turn.start, s) < MinOf(turn.end, e)

\* duration = overlap_end - overlap_start
Duration(turn, s, e) == MinOf(turn.end, e) - MaxOf(turn.start, s)

\* speaker_time is a dict: its keys in insertion order, and their values
EmptyDict == [keys |-> <<>>, val |-> [sp \in {} |-> 0]]

DictGet(d, k, default) == IF k \in DOMAIN d.val THEN d.val[k] ELSE default

DictSet(d, k, v) ==
    [keys |-> IF k \in DOMAIN d.val THEN d.keys ELSE Append(d.keys, k),
     val  |-> [x \in DOMAIN d.val \cup {k} |-> IF x = k THEN v ELSE d.val[x]]]

\* one iteration of the loop over the turns
AccumulateTurn(speaker_time, turn, s, e) ==
    IF HasOverlap(turn, s, e)
    THEN DictSet(speaker_time, turn.speaker,
                 DictGet(speaker_time, turn.speaker, 0) + Duration(turn, s, e))
    ELSE speaker_time

RECURSIVE AccumulateFrom(_, _, _, _, _)
AccumulateFrom(speaker_time, turns, i, s, e) ==
    IF i > Len(turns) THEN speaker_time
    ELSE AccumulateFrom(AccumulateTurn(speaker_time, turns[i], s, e), turns, i + 1, s, e)

\* mutant of MaxKeyFrom: a later key with an equal value replaces the best
RECURSIVE MaxKeyFromLast(_, _, _)
MaxKeyFromLast(d, i, best) ==
    IF i > Len(d.keys) THEN best
    ELSE MaxKeyFromLast(d, i + 1,
                        IF d.val[d.keys[i]] >= d.val[best] THEN d.keys[i] ELSE best)

\* max(speaker_time, key=speaker_time.get): the first key, in iteration
\* order, whose value no later key exceeds and no earlier key reaches
RECURSIVE MaxKeyFrom(_, _, _)
MaxKeyFrom(d, i, best) ==
    IF i > Len(d.keys) THEN best
    ELSE MaxKeyFrom(d, i + 1,
                    IF d.val[d.keys[i]] > d.val[best] THEN d.keys[i] ELSE best)

MaxKey(d) == MaxKeyFrom(d, 2, d.keys[1])

get_speaker_for_time(turns, s, e) ==
    LET speaker_time == AccumulateFrom(EmptyDict, turns, 1, s, e)
    IN  IF speaker_time.keys = <<>> THEN UnknownSpeaker ELSE MaxKey(speaker_time)

----------------------------------------------------------------------------
\* format_time and format_transcript

TwoDigits(n) == IF n < 10 THEN "0" \o ToString(n) ELSE ToString(n)

\* f"{hours:02d}:{minutes:02d}:{secs:02d}"
format_time(seconds) ==
    LET hours   == seconds \div 3600
        minutes == (seconds % 3600) \div 60
        secs    == seconds % 60
    IN  TwoDigits(hours) \o ":" \o TwoDigits(minutes) \o ":" \o TwoDigits(secs)

\* the lines of the returned text
BlankLine == [kind |-> "blank", time |-> "", speaker |-> "", text |-> ""]
RuleLine == [kind |-> "rule", time |-> "", speaker |-> "", text |-> ""]
TitleLine(n) == [kind |-> "title", time |-> "", speaker |-> "", text |-> ToString(n)]
HeaderLine(timestamp, speaker) ==
    [kind |-> "header", time |-> timestamp, speaker |-> speaker, text |-> ""]
TextLine(text) == [kind |-> "text", time |-> "", speaker |-> "", text |-> text]


\* mutant of FormatSegment: current_speaker is not updated
FormatSegmentNoUpdate(st, seg) ==
    LET timestamp == format_time(seg.start)
        head == IF seg.speaker # st.current_speaker
                THEN (IF st.current_speaker # None THEN <<BlankLine>> ELSE <<>>)
                     \o <<HeaderLine(timestamp, seg.speaker)>>
                ELSE <<>>
    IN  [current_speaker |-> st.current_speaker,
         output |-> st.output \o head \o <<TextLine(seg.text)>>]

\* one iteration of the loop over the segments
FormatSegment(st, seg) ==
    LET timestamp == format_time(seg.start)
        head == IF seg.speaker # st.current_speaker
                THEN (IF st.current_speaker # None THEN <<BlankLine>> ELSE <<>>)
                     \o <<HeaderLine(timestamp, seg.speaker)>>
                ELSE <<>>
    IN  [current_speaker |-> IF seg.speaker # st.current_speaker
                             THEN seg.speaker ELSE st.current_speaker,
         output |-> st.output \o head \o <<TextLine(seg.text)>>]

RECURSIVE FormatFrom(_, _, _)
FormatFrom(st, segs, i) ==
    IF i > Len(segs) THEN st
    ELSE FormatFrom(FormatSegment(st, segs[i]), segs, i + 1)

\* "\n" + rule + "SEGMENT n" + rule + "\n": the block's preamble
Preamble(n) == <<BlankLine, RuleLine, TitleLine(n), RuleLine, BlankLine>>

format_transcript(segs, n) ==
    FormatFrom([current_speaker |-> None, output |-> Preamble(n)], segs, 1).output
        \o <<BlankLine>>

----------------------------------------------------------------------------
\* The recorders: files and background threads

\* the header lines written when the master file is created
SessionHeader == [seg |-> 0, part |-> "session"]

\* mutant of FileAppend: the lines are inserted in segment-number order
FileInsertSorted(file, lines) ==
    LET n == lines[1].seg
        before == SelectSeq(file, LAMBDA l : l.seg <= n)
        after == SelectSeq(file, LAMBDA l : l.seg > n)
    IN  before \o lines \o after

\* one write to a file opened with mode "a": the lines go to the end
FileAppend(file, lines) == file \o lines

\* mutant of TaskLabel: the thread reads the capture loop's counter
TaskLabelShared(t) == segment_num

\* the segment_num a thread labels its output with: its own argument
TaskLabel(t) == t.segment_num

\* f"\n--- SEGMENT {segment_num} ---\n", or the SEGMENT title of formatted_text
BlockHeader(t) == [seg |-> TaskLabel(t), part |-> "header"]
\* result["text"] + "\n", or the speaker lines of formatted_text
BlockText(t) == [seg |-> TaskLabel(t), part |-> "text"]

\* threading.Thread(target=..., args=(audio_file, segment_num, ...))
NewThread(n) ==
    [audio_file |-> n, segment_num |-> n,
     pc |-> IF script = "diarization" THEN "read_audio" ELSE "transcribe",
     large |-> FALSE, buf |-> <<>>]

ThreadIds == DOMAIN threads

SetThread(i, t) == threads' = [threads EXCEPT ![i] = t]

\* what a thread's step leaves alone
MainUnchanged ==
    UNCHANGED <<script, HF_TOKEN, SEGMENT_SECONDS, pc, session_dir, stream,
                segment_num, is_recording, frames, wav, interrupt_at,
                speakerVars, formatVars>>

\* what a step of the main thread leaves alone besides its own variables
PureUnchanged == UNCHANGED <<speakerVars, formatVars, script, HF_TOKEN, SEGMENT_SECONDS>>

----------------------------------------------------------------------------
\* The main thread

\* mutant of TokenMissing: only an unset variable counts as missing
TokenIsNone(token) == token = None

\* if not HF_TOKEN
TokenMissing(token) == token = None \/ token = ""

\* the positions inside the try block
TryBlock == {"loop", "capture", "save_open", "save_write", "save_close",
             "dispatch", "increment"}

\* HF_TOKEN = os.getenv("HF_TOKEN"); if not HF_TOKEN: ... return
CheckToken ==
    /\ pc = "start"
    /\ script = "diarization"
    /\ pc' = IF TokenMissing(HF_TOKEN) THEN "returned" ELSE "setup"
    /\ UNCHANGED <<session_dir, master_file, stream, segment_num, is_recording,
                   frames, wav, threads, json_files, interrupt_at>>
    /\ PureUnchanged

\* os.makedirs(session_dir); the master file is created with its header
CreateSession ==
    /\ pc = "setup"
    /\ session_dir' = TRUE
    /\ master_file' = <<SessionHeader>>
    /\ pc' = "open_stream"
    /\ UNCHANGED <<stream, segment_num, is_recording, frames, wav, threads,
                   json_files, interrupt_at>>
    /\ PureUnchanged

\* stream = audio.open(...); segment_num = 1; is_recording = True
OpenStream ==
    /\ pc = "open_stream"
    /\ stream' = "open"
    /\ segment_num' = 1
    /\ is_recording' = TRUE
    /\ pc' = "loop"
    /\ UNCHANGED <<session_dir, master_file, frames, wav, threads, json_files,
                   interrupt_at>>
    /\ PureUnchanged

\* while is_recording: frames = []; segment_start = time.time()
LoopHead ==
    /\ pc = "loop"
    /\ segment_num <= MaxSegments
    /\ IF is_recording
       THEN frames' = 0 /\ pc' = "capture"
       ELSE frames' = frames /\ pc' = "cleanup"
    /\ UNCHANGED <<session_dir, master_file, stream, segment_num, is_recording,
                   wav, threads, json_files, interrupt_at>>
    /\ PureUnchanged

\* the inner loop's condition: the segment's time has not elapsed
Capturing == frames < SEGMENT_SECONDS /\ is_recording

\* data = stream.read(CHUNK); frames.append(data)
ReadChunk ==
    /\ pc = "capture"
    /\ Capturing
    /\ frames' = frames + 1
    /\ UNCHANGED <<pc, session_dir, master_file, stream, segment_num,
                   is_recording, wav, threads, json_files, interrupt_at>>
    /\ PureUnchanged

\* the inner loop ends; if not frames: break
EndCapture ==
    /\ pc = "capture"
    /\ ~Capturing
    /\ pc' = IF frames = 0 THEN "cleanup" ELSE "save_open"
    /\ UNCHANGED <<session_dir, master_file, stream, segment_num, is_recording,
                   frames, wav, threads, json_files, interrupt_at>>
    /\ PureUnchanged

SetWav(n, f) == wav' = [m \in DOMAIN wav \cup {n} |-> IF m = n THEN f ELSE wav[m]]

\* wf = wave.open(audio_file, 'wb') and the set* calls
OpenWav ==
    /\ pc = "save_open"
    /\ SetWav(segment_num, [data |-> 0, closed |-> FALSE])
    /\ pc' = "save_write"
    /\ UNCHANGED <<session_dir, master_file, stream, segment_num, is_recording,
                   frames, threads, json_files, interrupt_at>>
    /\ PureUnchanged

\* mutant of WriteFrames: the thread is started before the file is closed
WriteFramesThenDispatch ==
    /\ pc = "save_write"
    /\ SetWav(segment_num, [data |-> frames, closed |-> FALSE])
    /\ pc' = "dispatch"
    /\ UNCHANGED <<session_dir, master_file, stream, segment_num, is_recording,
                   frames, threads, json_files, interrupt_at>>
    /\ PureUnchanged

\* wf.writeframes(b''.join(frames))
WriteFrames ==
    /\ pc = "save_write"
    /\ SetWav(segment_num, [data |-> frames, closed |-> FALSE])
    /\ pc' = "save_close"
    /\ UNCHANGED <<session_dir, master_file, stream, segment_num, is_recording,
                   frames, threads, json_files, interrupt_at>>
    /\ PureUnchanged

\* wf.close()
CloseWav ==
    /\ pc = "save_close"
    /\ SetWav(segment_num, [wav[segment_num] EXCEPT !.closed = TRUE])
    /\ pc' = "dispatch"
    /\ UNCHANGED <<session_dir, master_file, stream, segment_num, is_recording,
                   frames, threads, json_files, interrupt_at>>
    /\ PureUnchanged

\* transcribe_thread = threading.Thread(...); transcribe_thread.start()
StartThread ==
    /\ pc = "dispatch"
    /\ threads' = Append(threads, NewThread(segment_num))
    /\ pc' = "increment"
    /\ UNCHANGED <<session_dir, master_file, stream, segment_num, is_recording,
                   frames, wav, json_files, interrupt_at>>
    /\ PureUnchanged

\* segment_num += 1
Increment ==
    /\ pc = "increment"
    /\ segment_num' = segment_num + 1
    /\ pc' = "loop"
    /\ UNCHANGED <<session_dir, master_file, stream, is_recording, frames, wav,
                   threads, json_files, interrupt_at>>
    /\ PureUnchanged

\* mutant of KeyboardInterrupt: the handler sits inside the loop, which goes on
KeyboardInterruptInLoop ==
    /\ pc \in TryBlock
    /\ interrupt_at = "none"
    /\ interrupt_at' = pc
    /\ pc' = "loop"
    /\ UNCHANGED <<session_dir, master_file, stream, segment_num, is_recording,
                   frames, wav, threads, json_files>>
    /\ PureUnchanged

\* Ctrl+C in the try block: except KeyboardInterrupt: is_recording = False
KeyboardInterrupt ==
    /\ pc \in TryBlock
    /\ interrupt_at = "none"
    /\ interrupt_at' = pc
    /\ is_recording' = FALSE
    /\ pc' = "cleanup"
    /\ UNCHANGED <<session_dir, master_file, stream, segment_num, frames, wav,
                   threads, json_files>>
    /\ PureUnchanged

\* stream.stop_stream(); stream.close(); audio.terminate(); "Session completed!"
Cleanup ==
    /\ pc = "cleanup"
    /\ stream' = "closed"
    /\ pc' = "done"
    /\ UNCHANGED <<session_dir, master_file, segment_num, is_recording, frames,
                   wav, threads, json_files, interrupt_at>>
    /\ PureUnchanged

----------------------------------------------------------------------------
\* The background threads: transcribe_segment and transcribe_with_speakers

\* waveform, sample_rate = sf.read(audio_file)
ReadAudio(i) ==
    /\ threads[i].pc = "read_audio"
    /\ SetThread(i, [threads[i] EXCEPT !.pc = "diarize"])
    /\ UNCHANGED <<master_file, json_files>>
    /\ MainUnchanged

\* diarization = diarization_pipeline(audio_dict)
Diarize(i) ==
    /\ threads[i].pc = "diarize"
    /\ SetThread(i, [threads[i] EXCEPT !.pc = "transcribe"])
    /\ UNCHANGED <<master_file, json_files>>
    /\ MainUnchanged

\* the size classes of a transcribed text: whether it exceeds the buffer of
\* the file object it is written through (the diarization recorder hands its
\* whole block to one write, whatever the size)
TextSizes == IF script = "segment" THEN BOOLEAN ELSE {FALSE}

\* result = mlx_whisper.transcribe(...); in the diarization recorder the merge
\* and format_transcript follow
Transcribe(i) ==
    /\ threads[i].pc = "transcribe"
    /\ \E large \in TextSizes :
          SetThread(i, [threads[i] EXCEPT
                            !.pc = IF script = "diarization" THEN "append"
                                   ELSE "write_header",
                            !.large = large])
    /\ UNCHANGED <<master_file, json_files>>
    /\ MainUnchanged

\* mutant of RaiseInThread: the exception reaches the capture loop
RaiseInMain(i) ==
    /\ threads[i].pc \in {"read_audio", "diarize", "transcribe"}
    /\ SetThread(i, [threads[i] EXCEPT !.pc = "failed"])
    /\ pc' = IF pc \in TryBlock THEN "cleanup" ELSE pc
    /\ UNCHANGED <<master_file, json_files>>
    /\ UNCHANGED <<script, HF_TOKEN, SEGMENT_SECONDS, session_dir, stream,
                   segment_num, is_recording, frames, wav, interrupt_at,
                   speakerVars, formatVars>>

\* sf.read, the diarization pipeline or mlx_whisper.transcribe raises: the
\* exception ends the thread (threading prints the traceback)
RaiseInThread(i) ==
    /\ threads[i].pc \in {"read_audio", "diarize", "transcribe"}
    /\ SetThread(i, [threads[i] EXCEPT !.pc = "failed"])
    /\ UNCHANGED <<master_file, json_files>>
    /\ MainUnchanged

\* transcript-by-segment: with open(master_file, "a") as f: f.write(header)
\* the text stays in the file object's buffer
WriteHeader(i) ==
    /\ threads[i].pc = "write_header"
    /\ SetThread(i, [threads[i] EXCEPT !.pc = "write_text",
                                       !.buf = <<BlockHeader(threads[i])>>])
    /\ UNCHANGED <<master_file, json_files>>
    /\ MainUnchanged

\* f.write(result["text"] + "\n"): a text that fits the buffer joins the
\* header there; a larger one makes the file object write the pending
\* header out first
WriteText(i) ==
    /\ threads[i].pc = "write_text"
    /\ IF threads[i].large
       THEN /\ master_file' = FileAppend(master_file, threads[i].buf)
            /\ SetThread(i, [threads[i] EXCEPT !.pc = "write_text_raw", !.buf = <<>>])
       ELSE /\ master_file' = master_file
            /\ SetThread(i, [threads[i] EXCEPT
                                !.pc = "close",
                                !.buf = Append(threads[i].buf, BlockText(threads[i]))])
    /\ UNCHANGED json_files
    /\ MainUnchanged

\* the second write system call of a large text: the text itself
WriteTextRaw(i) ==
    /\ threads[i].pc = "write_text_raw"
    /\ master_file' = FileAppend(master_file, <<BlockText(threads[i])>>)
    /\ SetThread(i, [threads[i] EXCEPT !.pc = "close"])
    /\ UNCHANGED json_files
    /\ MainUnchanged

\* the with block ends: the file is closed and what is buffered is written
CloseMaster(i) ==
    /\ threads[i].pc = "close"
    /\ master_file' = IF threads[i].buf = <<>> THEN master_file
                      ELSE FileAppend(master_file, threads[i].buf)
    /\ SetThread(i, [threads[i] EXCEPT !.pc = "done", !.buf = <<>>])
    /\ UNCHANGED json_files
    /\ MainUnchanged

\* transcript-with-diarization: with open(master_file, "a") as f:
\* f.write(formatted_text), one write of the whole block
AppendBlock(i) ==
    /\ threads[i].pc = "append"
    /\ master_file' = FileAppend(master_file,
                                 <<BlockHeader(threads[i]), BlockText(threads[i])>>)
    /\ SetThread(i, [threads[i] EXCEPT !.pc = "json"])
    /\ UNCHANGED json_files
    /\ MainUnchanged

\* json.dump(transcript_with_speakers, f) into segment_NNN.json
WriteJson(i) ==
    /\ threads[i].pc = "json"
    /\ json_files' = json_files \cup {TaskLabel(threads[i])}
    /\ SetThread(i, [threads[i] EXCEPT !.pc = "done"])
    /\ UNCHANGED master_file
    /\ MainUnchanged

----------------------------------------------------------------------------
\* The specification of the recorders

\* the values the merge functions' variables keep while the recorders run
SpeakerParked ==
    /\ diarization = <<>>
    /\ start = 0
    /\ end = 0
    /\ speaker_result = NotCalled

FormatParked ==
    /\ segments = <<>>
    /\ fmt_segment_num = 1
    /\ output = <<>>

\* segment_minutes * 60, from the prompt: zero, or a positive duration
Durations == {0, SegmentChunks}

InitRecorder ==
    /\ script \in {"segment", "diarization"}
    /\ HF_TOKEN \in IF script = "diarization" THEN {None, "", "hf_token"} ELSE {None}
    /\ SEGMENT_SECONDS \in Durations
    /\ pc = IF script = "diarization" THEN "start" ELSE "setup"
    /\ session_dir = FALSE
    /\ master_file = <<>>
    /\ stream = "none"
    /\ segment_num = 1
    /\ is_recording = TRUE
    /\ frames = 0
    /\ wav = <<>>
    /\ threads = <<>>
    /\ json_files = {}
    /\ interrupt_at = "none"

Init == InitRecorder /\ SpeakerParked /\ FormatParked

MainStep ==
    \/ CheckToken
    \/ CreateSession
    \/ OpenStream
    \/ LoopHead
    \/ ReadChunk
    \/ EndCapture
    \/ OpenWav
    \/ WriteFrames
    \/ CloseWav
    \/ StartThread
    \/ Increment
    \/ KeyboardInterrupt
    \/ Cleanup

ThreadStep ==
    \/ \E i \in ThreadIds : ReadAudio(i)
    \/ \E i \in ThreadIds : Diarize(i)
    \/ \E i \in ThreadIds : Transcribe(i)
    \/ \E i \in ThreadIds : RaiseInThread(i)
    \/ \E i \in ThreadIds : WriteHeader(i)
    \/ \E i \in ThreadIds : WriteText(i)
    \/ \E i \in ThreadIds : WriteTextRaw(i)
    \/ \E i \in ThreadIds : CloseMaster(i)
    \/ \E i \in ThreadIds : AppendBlock(i)
    \/ \E i \in ThreadIds : WriteJson(i)

Next == MainStep \/ ThreadStep

Spec == Init /\ [][Next]_vars

----------------------------------------------------------------------------
\* The specifications of the merge functions: the inputs are drawn in the
\* initial state and one action applies the function

RecorderParked ==
    /\ script = "diarization"
    /\ HF_TOKEN = None
    /\ SEGMENT_SECONDS = 0
    /\ pc = "returned"
    /\ session_dir = FALSE
    /\ master_file = <<>>
    /\ stream = "none"
    /\ segment_num = 1
    /\ is_recording = TRUE
    /\ frames = 0
    /\ wav = <<>>
    /\ threads = <<>>
    /\ json_files = {}
    /\ interrupt_at = "none"

InitSpeaker ==
    /\ diarization \in SeqsUpTo(Turns, MaxTurns)
    /\ start \in 0..MaxTime
    /\ end \in start..MaxTime
    /\ speaker_result = NotCalled
    /\ FormatParked
    /\ RecorderParked

\* speaker = get_speaker_for_time(diarization, start_time, end_time)
CallGetSpeaker ==
    /\ speaker_result = NotCalled
    /\ speaker_result' = get_speaker_for_time(diarization, start, end)
    /\ UNCHANGED <<diarization, start, end, formatVars, recorderVars>>

NextSpeaker == CallGetSpeaker

SpecSpeaker == InitSpeaker /\ [][NextSpeaker]_vars

\* the start times, in seconds, and the texts of the labeled segments
StartTimes == {0, 59, 3661}
Texts == {"hi", "there"}

LabeledSegments == [speaker : Speakers, start : StartTimes, text : Texts]

InitFormat ==
    /\ segments \in SeqsUpTo(LabeledSegments, MaxSegs)
    /\ fmt_segment_num \in 1..MaxSegments
    /\ output = <<>>
    /\ SpeakerParked
    /\ RecorderParked

\* formatted_text = format_transcript(transcript_with_speakers, segment_num)
CallFormatTranscript ==
    /\ output = <<>>
    /\ output' = format_transcript(segments, fmt_segment_num)
    /\ UNCHANGED <<segments, fmt_segment_num, speakerVars, recorderVars>>

NextFormat == CallFormatTranscript

SpecFormat == InitFormat /\ [][NextFormat]_vars

----------------------------------------------------------------------------
\* Claims about get_speaker_for_time (checked under SpecSpeaker)

\* the overlap of a turn with the window, as the specification states it
Overlap(turn, s, e) == MaxOf(0, MinOf(turn.end, e) - MaxOf(turn.start, s))

RECURSIVE SummedOverlapFrom(_, _)
SummedOverlapFrom(sp, i) ==
    IF i > Len(diarization) THEN 0
    ELSE (IF diarization[i].speaker = sp THEN Overlap(diarization[i], start, end) ELSE 0)
         + SummedOverlapFrom(sp, i + 1)

\* the summed overlap of all of a speaker's turns with the window
SummedOverlap(sp) == SummedOverlapFrom(sp, 1)

\* a turn that ends where the window starts or starts where it ends
Abuts(turn) == turn.end = start \/ turn.start = end

\* C1: the returned speaker has maximal summed overlap with the window;
\* "Unknown Speaker" is returned exactly when no turn has strictly positive
\* overlap; a speaker whose turns only abut the window is never returned
C1_MaxSummedOverlap ==
    speaker_result # NotCalled =>
        /\ (speaker_result = UnknownSpeaker) <=>
               (\A i \in DOMAIN diarization : Overlap(diarization[i], start, end) = 0)
        /\ speaker_result # UnknownSpeaker =>
               /\ speaker_result \in Speakers
               /\ SummedOverlap(speaker_result) > 0
               /\ \A sp \in Speakers : SummedOverlap(sp) <= SummedOverlap(speaker_result)
        /\ \A sp \in Speakers :
               (\A i \in DOMAIN diarization :
                    diarization[i].speaker = sp => Abuts(diarization[i]))
               => speaker_result # sp

\* the sum decides: the returned speaker has two overlapping turns, neither
\* longer in the window than the other speaker's turn, and a turn abuts
C1_Witness ==
    /\ speaker_result = "SPEAKER_00"
    /\ Len(diarization) = 3
    /\ diarization[1].speaker = "SPEAKER_01"
    /\ diarization[2].speaker = "SPEAKER_00"
    /\ diarization[3].speaker = "SPEAKER_00"
    /\ Overlap(diarization[1], start, end) > 0
    /\ Overlap(diarization[2], start, end) = Overlap(diarization[1], start, end)
    /\ Overlap(diarization[3], start, end) > 0

\* every turn only abuts the window: nobody is a candidate
C1_WitnessAbut ==
    /\ speaker_result = UnknownSpeaker
    /\ diarization # <<>>
    /\ \A i \in DOMAIN diarization : Abuts(diarization[i])

\* the turns of a speaker that overlap the window, by position
PositiveTurns(sp) ==
    {i \in DOMAIN diarization :
        diarization[i].speaker = sp /\ Overlap(diarization[i], start, end) > 0}

\* the speakers whose summed overlap is the maximum, and positive
TopSpeakers ==
    {sp \in Speakers :
        /\ SummedOverlap(sp) > 0
        /\ \A other \in Speakers : SummedOverlap(other) <= SummedOverlap(sp)}

\* the turns in reverse order
Reversed(turns) == [i \in DOMAIN turns |-> turns[Len(turns) + 1 - i]]

\* C11: among the speakers of equal maximal summed overlap the result is
\* the one whose first turn of strictly positive overlap comes earliest in
\* the turn sequence
C11_TieGoesToFirstTurn ==
    (speaker_result # NotCalled /\ TopSpeakers # {}) =>
        /\ speaker_result \in TopSpeakers
        /\ \A sp \in TopSpeakers : \A i \in PositiveTurns(sp) :
               \E j \in PositiveTurns(speaker_result) : j <= i

\* a tie that the later-named speaker wins because its turn comes first,
\* behind a turn that only abuts the window; the same turns in reverse
\* order give the other speaker
C11_Witness ==
    /\ speaker_result = "SPEAKER_01"
    /\ TopSpeakers = Speakers
    /\ Len(diarization) = 3
    /\ diarization[1].speaker = "SPEAKER_00"
    /\ Overlap(diarization[1], start, end) = 0
    /\ diarization[2].speaker = "SPEAKER_01"
    /\ diarization[3].speaker = "SPEAKER_00"
    /\ get_speaker_for_time(Reversed(diarization), start, end) = "SPEAKER_00"

----------------------------------------------------------------------------
\* Claims about format_transcript (checked under SpecFormat)

\* segment i starts a maximal run of consecutive same-speaker segments
RunStart(i) == i = 1 \/ segments[i].speaker # segments[i - 1].speaker

\* the header and text lines, without the preamble and the blank lines
Body == SelectSeq(output, LAMBDA l : l.kind \in {"header", "text"})

\* the lines segment i must contribute
LinesOf(i) ==
    (IF RunStart(i)
     THEN <<HeaderLine(format_time(segments[i].start), segments[i].speaker)>>
     ELSE <<>>) \o <<TextLine(segments[i].text)>>

RECURSIVE ExpectedBodyFrom(_)
ExpectedBodyFrom(i) ==
    IF i > Len(segments) THEN <<>> ELSE LinesOf(i) \o ExpectedBodyFrom(i + 1)

\* C2: one header per maximal run of consecutive same-speaker segments,
\* emitted at the run's first segment with that segment's formatted start
\* time and speaker, and every segment's text as one line, in input order,
\* under the header of its run; start times play no part in the grouping
C2_OneHeaderPerRun ==
    output # <<>> =>
        /\ Body = ExpectedBodyFrom(1)
        /\ Cardinality({j \in DOMAIN output : output[j].kind = "header"})
               = Cardinality({i \in DOMAIN segments : RunStart(i)})
        /\ Cardinality({j \in DOMAIN output : output[j].kind = "text"}) = Len(segments)

\* two segments of one speaker, with start times out of order, then another
\* speaker: two headers, the first carrying 01:01:01
C2_Witness ==
    /\ Len(segments) = 3
    /\ segments[1].speaker = segments[2].speaker
    /\ segments[3].speaker # segments[2].speaker
    /\ segments[1].start = 3661
    /\ segments[2].start = 0
    /\ Len(Body) = 5
    /\ Body[1].kind = "header" /\ Body[1].time = "01:01:01"
    /\ Body[4].kind = "header" /\ Body[4].time = format_time(segments[3].start)

----------------------------------------------------------------------------
\* Claims about the recorders (checked under Spec)

\* the WAV file of segment n exists, holds frames and is closed
WavWritten(n) == n \in DOMAIN wav /\ wav[n].closed /\ wav[n].data > 0

\* the lines of the master file that carry segment number n
LinesOfSegment(n) == {k \in DOMAIN master_file : master_file[k].seg = n}

HasLine(n, part) == \E k \in DOMAIN master_file : master_file[k] = [seg |-> n, part |-> part]

\* a thread that has not ended
InFlight(i) == threads[i].pc \notin {"done", "failed"}

\* every started thread's WAV file is written and closed, and so is the file
\* of every segment before the one the loop is at
C3_WrittenBeforeLater ==
    /\ \A i \in ThreadIds : WavWritten(threads[i].audio_file)
    /\ \A n \in 1..(segment_num - 1) : WavWritten(n)
    /\ \A n \in DOMAIN wav : n # segment_num => WavWritten(n)

\* the step that starts a thread finds the segment's file closed, holding
\* all the frames captured for it
C3_WrittenAtDispatch ==
    Len(threads') > Len(threads) =>
        /\ frames > 0
        /\ segment_num \in DOMAIN wav
        /\ wav[segment_num] = [data |-> frames, closed |-> TRUE]
        /\ threads'[Len(threads')].audio_file = segment_num

\* C3: the WAV file of segment n is written and closed before the thread of
\* segment n is started, and before segment n+1 is captured; the audio not
\* yet in a WAV file is that of the one segment being captured
C3_PersistedBeforeProcessing ==
    []C3_WrittenBeforeLater /\ [][C3_WrittenAtDispatch]_vars

\* interrupted while capturing segment 2: segment 1 is in its file
C3_Witness ==
    /\ pc = "done"
    /\ interrupt_at = "capture"
    /\ segment_num = 2
    /\ frames = 1
    /\ WavWritten(1)
    /\ 2 \notin DOMAIN wav

\* C4: after an interrupt during capture, the frames captured so far are in
\* the segment's WAV file and the segment has a thread, before the session ends
C4_InterruptedSegmentPersisted ==
    (pc = "done" /\ interrupt_at = "capture" /\ frames > 0) =>
        /\ segment_num \in DOMAIN wav
        /\ wav[segment_num] = [data |-> frames, closed |-> TRUE]
        /\ \E i \in ThreadIds : threads[i].audio_file = segment_num

\* C5: in the diarization recorder without a token nothing is recorded: no
\* stream, no session directory, no master file, no frames, no WAV, no thread
C5_NoTokenNoRecording ==
    (script = "diarization" /\ HF_TOKEN \in {None, ""}) =>
        /\ pc \in {"start", "returned"}
        /\ stream = "none"
        /\ ~session_dir
        /\ master_file = <<>>
        /\ frames = 0
        /\ wav = <<>>
        /\ threads = <<>>
        /\ json_files = {}

\* the run has returned on an empty token
C5_Witness == script = "diarization" /\ HF_TOKEN = "" /\ pc = "returned"

\* the numbers of the WAV files and threads are 1, 2, ... in capture order,
\* and what a thread has written carries its own number
C6_Numbered ==
    /\ DOMAIN wav = 1..Cardinality(DOMAIN wav)
    /\ Cardinality(DOMAIN wav) \in {segment_num - 1, segment_num}
    /\ Len(threads) \in {segment_num - 1, segment_num}
    /\ \A i \in ThreadIds : threads[i].segment_num = i /\ threads[i].audio_file = i
    /\ \A k \in DOMAIN master_file :
           master_file[k].seg # 0 =>
               /\ master_file[k].seg \in ThreadIds
               /\ \A m \in DOMAIN master_file :
                      master_file[m] = master_file[k] => m = k
    /\ \A i \in ThreadIds :
           threads[i].pc \in {"json", "done"} =>
               HasLine(i, "header") /\ HasLine(i, "text")
    /\ \A n \in json_files : n \in ThreadIds /\ threads[n].pc = "done"
    /\ \A i \in ThreadIds :
           (script = "diarization" /\ threads[i].pc = "done") => i \in json_files

\* a closed WAV file is never written again
C6_WavKept == \A n \in DOMAIN wav : wav[n].closed => wav'[n] = wav[n]

\* C6: the k-th segment persisted has number k, no number serves two WAV
\* files or two threads, and a thread labels its block and JSON file with
\* the number it was started with, wherever the loop's counter is by then
C6_MonotonicNumbering == []C6_Numbered /\ [][C6_WavKept]_vars

\* thread 1 finishes when the counter has moved on to 3
C6_Witness ==
    /\ segment_num = 3
    /\ Len(threads) = 2
    /\ threads[1].pc = "done"
    /\ InFlight(2)
    /\ HasLine(1, "header")
    /\ ~HasLine(2, "header")

\* C7: the lines of one segment's block are contiguous in the master file
C7_BlocksContiguous ==
    \A j, k \in DOMAIN master_file :
        (j < k /\ master_file[j].seg = master_file[k].seg) =>
            \A m \in j..k : master_file[m].seg = master_file[j].seg

\* the diarization recorder writes each block with one write
C7_DiarizationBlocksContiguous == script = "diarization" => C7_BlocksContiguous

\* C8: whenever the master file changes, one thread's lines are appended at
\* its end, whatever blocks it holds already: blocks are in completion order
C8_AppendedOnCompletion ==
    [][(master_file # <<>> /\ master_file' # master_file) =>
          \E i \in ThreadIds :
              /\ threads'[i].pc # threads[i].pc
              /\ Len(master_file') > Len(master_file)
              /\ SubSeq(master_file', 1, Len(master_file)) = master_file
              /\ \A k \in (Len(master_file) + 1)..Len(master_file') :
                     master_file'[k].seg = i]_vars

\* the block of segment 2 precedes the block of segment 1
C8_Witness ==
    master_file = <<SessionHeader,
                    [seg |-> 2, part |-> "header"], [seg |-> 2, part |-> "text"],
                    [seg |-> 1, part |-> "header"], [seg |-> 1, part |-> "text"]>>

\* once interrupted, the loop captures, saves and starts nothing more
C9_StoppedAfterInterrupt ==
    interrupt_at # "none" =>
        /\ UNCHANGED <<segment_num, frames, wav, is_recording, interrupt_at>>
        /\ Len(threads') = Len(threads)
        /\ pc' \in {"cleanup", "done"}

\* the main thread's steps, the interrupt included, leave the threads alone
C9_ThreadsNotCancelled ==
    pc' # pc => \A i \in ThreadIds : threads'[i] = threads[i]

\* the main thread closes the stream whatever the threads are doing
C9_NoJoin == pc = "cleanup" => ENABLED Cleanup

\* C9: an interrupt stops the capture loop for good; the threads in flight
\* are not cancelled and the recorder does not wait for them
C9_InterruptNoDrain ==
    /\ [][C9_StoppedAfterInterrupt]_vars
    /\ [][C9_ThreadsNotCancelled]_vars
    /\ []C9_NoJoin

\* the session is completed while segment 1's block is still missing
C9_Witness ==
    /\ pc = "done"
    /\ stream = "closed"
    /\ interrupt_at # "none"
    /\ Len(threads) >= 1
    /\ InFlight(1)
    /\ LinesOfSegment(1) = {}

\* a failed thread has written nothing
C10_FailedWroteNothing ==
    \A i \in ThreadIds :
        threads[i].pc = "failed" =>
            LinesOfSegment(i) = {} /\ i \notin json_files /\ threads[i].buf = <<>>

\* a failed thread stays failed, and the step in which a thread fails
\* changes nothing else
C10_FailureIsolated ==
    \A i \in ThreadIds :
        /\ threads[i].pc = "failed" => threads'[i] = threads[i]
        /\ (threads[i].pc # "failed" /\ threads'[i].pc = "failed") =>
               /\ UNCHANGED <<pc, is_recording, segment_num, frames, wav, stream,
                              master_file, json_files, interrupt_at, session_dir>>
               /\ \A j \in ThreadIds : j # i => threads'[j] = threads[j]
               /\ Len(threads') = Len(threads)

\* C10: an exception in a thread ends that thread only: nothing is written
\* for its segment, it is not retried, and the loop and the other threads
\* go on
C10_FailureEndsOnlyThread ==
    []C10_FailedWroteNothing /\ [][C10_FailureIsolated]_vars

\* thread 1 has failed; segment 2 was captured, transcribed and appended and
\* the loop is capturing segment 3
C10_Witness ==
    /\ Len(threads) = 2
    /\ threads[1].pc = "failed"
    /\ threads[2].pc = "done"
    /\ HasLine(2, "header") /\ HasLine(2, "text")
    /\ LinesOfSegment(1) = {}
    /\ pc = "capture"
    /\ segment_num = 3
    /\ frames = 1

====
